---------------------------- MODULE Spec2Model ----------------------------
(***************************************************************************)
(* A model of the pdml front end: the tokenizer (pdml-lib/src/lexer.rs)    *)
(* over the character reader (pdml-lib/src/reader.rs), the recursive       *)
(* descent parser (pdml-lib/src/parser.rs) with the partial-record         *)
(* builders generated by pdml-macros, and the selector classifier          *)
(* (pdml-lib/src/scrape.rs).                                               *)
(*                                                                         *)
(* A source text is a sequence of one-character strings.  The reader is a  *)
(* pair (s, p): the file content s and the number p of characters already  *)
(* consumed.  Every function of the lexer and of the parser is an operator *)
(* that returns a record with the outcome and the reader position it       *)
(* leaves behind.  Source files are shorter than the BufReader's buffer,   *)
(* so fill_buf() shows all the unread content.                             *)
(***************************************************************************)
EXTENDS Naturals, Sequences, FiniteSets, TLC

VARIABLES
    src,        \* content of the file the Parser was created for
    doc,        \* the pages the file was written from, None for a raw string
    start,      \* Lexer::tokenize: the reader's position when the last call of
                \* next_token began
    pos,        \* Lexer::tokenize: characters consumed by this lexer's reader
    tokens,     \* Lexer::tokenize: the tokens pushed so far
    lexState,   \* Lexer::tokenize: "run", "done" (Ok) or "fail" (Err)
    lexErr,     \* Lexer::tokenize: the error returned, when lexState = "fail"
    result,     \* outcome of Parser::parse, NotRun before the call
    element,    \* scrape: the Element handed to get_element_data
    matches,    \* scrape: number of nodes the query engine finds for it
    scraped,    \* scrape: outcome of get_element_data, NotRun before the call
    matched     \* expect: the expected shape and the outcome, NotRun before

vars ==
    <<src, doc, start, pos, tokens, lexState, lexErr, result, element, matches,
      scraped, matched>>

Min(a, b) == IF a < b THEN a ELSE b

-----------------------------------------------------------------------------
(* Characters *)

LowerChars ==
    {"a","b","c","d","e","f","g","h","i","j","k","l","m",
     "n","o","p","q","r","s","t","u","v","w","x","y","z"}

UpperChars ==
    {"A","B","C","D","E","F","G","H","I","J","K","L","M",
     "N","O","P","Q","R","S","T","U","V","W","X","Y","Z"}

VALID_IDEN_CHARS == LowerChars \cup UpperChars \cup {"_"}

WhitespaceChars == {" ", "\r", "\n", "\t"}

DigitChars == {"0","1","2","3","4","5","6","7","8","9"}

DigitVal(c) ==
    CASE c = "0" -> 0 [] c = "1" -> 1 [] c = "2" -> 2 [] c = "3" -> 3
      [] c = "4" -> 4 [] c = "5" -> 5 [] c = "6" -> 6 [] c = "7" -> 7
      [] c = "8" -> 8 [] c = "9" -> 9

-----------------------------------------------------------------------------
(* Results: Ok(value) or Err(error), with the reader position afterwards *)

Ok(v, p) == [ok |-> TRUE, val |-> v, pos |-> p]

Err(e, p) == [ok |-> FALSE, err |-> e, pos |-> p]

\* `let v = value; body`: the value is computed once and named in the body
With(value, body(_)) == CHOOSE r \in { body(v) : v \in {value} } : TRUE

-----------------------------------------------------------------------------
(* reader.rs *)

ReaderEOF == [kind |-> "EOF"]

next_char(s, p) ==
    IF p >= Len(s) THEN Err(ReaderEOF, p) ELSE Ok(s[p + 1], p + 1)

peek(s, p) ==
    IF p >= Len(s) THEN Err(ReaderEOF, p) ELSE Ok(s[p + 1], p)

peek_many(s, p, amt) ==
    IF p >= Len(s) THEN Err(ReaderEOF, p)
    ELSE Ok(SubSeq(s, p + 1, Min(p + amt, Len(s))), p)

advance(s, p, amt) == Min(p + amt, Len(s))

-----------------------------------------------------------------------------
(* lexer.rs: tokens *)

QSingle == [q |-> "Single"]
QMany == [q |-> "Many"]
QFixed(n) == [q |-> "Fixed", n |-> n]
QAny == [q |-> "Any"]

TLiteral(lt, text) == [type |-> "Literal", lit |-> lt, text |-> text]
TAssignment == [type |-> "Assignment"]
TParen(pt) == [type |-> "Paren", paren |-> pt]
TEOF == [type |-> "EOF"]
TWhitespace == [type |-> "Whitespace"]
TPage == [type |-> "Page"]
TUnknown(c) == [type |-> "Unknown", ch |-> c]
TSelector(text, quant) == [type |-> "Selector", text |-> text, quant |-> quant]

BlockOpen == TParen("BlockOpen")
BlockClose == TParen("BlockClose")

\* the derived equality of TokenType, which compares the payloads too
TokenEq_Derived(tok, other) == tok = other

\* impl PartialEq<TokenType> for Token: equality of shape
TokenEq(tok, other) ==
    CASE tok.type = "Literal" -> other.type = "Literal" /\ tok.lit = other.lit
      [] tok.type = "Assignment" -> other.type = "Assignment"
      [] tok.type = "Paren" -> other.type = "Paren" /\ tok.paren = other.paren
      [] tok.type = "EOF" -> other.type = "EOF"
      [] tok.type = "Whitespace" -> other.type = "Whitespace"
      [] tok.type = "Page" -> other.type = "Page"
      [] tok.type = "Unknown" -> other.type = "Unknown"
      [] tok.type = "Selector" -> other.type = "Selector"

\* lexer errors
LexReaderError(msg) == [kind |-> "ReaderError", msg |-> msg]
UnmatchedTokenError(tt) == [kind |-> "UnmatchedTokenError", tok |-> tt]
InvalidQuantifier(text) == [kind |-> "InvalidQuantifier", text |-> text]

\* impl From<ReaderError> for LexerError
LexerErrorFrom(e) ==
    LexReaderError(IF e.kind = "EOF" THEN "Reader reached eof" ELSE "io")


-----------------------------------------------------------------------------
(* Helpers for Rust's str methods *)

\* str::contains(c)
Contains(str, c) == \E i \in 1..Len(str) : str[i] = c

\* str::find(c): index of the first occurrence, counted from 0; only called
\* on a text that contains c
Find(str, c) ==
    (CHOOSE i \in 1..Len(str) :
        str[i] = c /\ \A j \in 1..(i - 1) : str[j] # c) - 1

\* str::split(c).collect(): the parts between all occurrences of c
RECURSIVE Split(_, _)
Split(str, c) ==
    IF ~Contains(str, c) THEN <<str>>
    ELSE With(Find(str, c) + 1, LAMBDA i :
         <<SubSeq(str, 1, i - 1)>> \o Split(SubSeq(str, i + 1, Len(str)), c))

\* value of a sequence of decimal digits
RECURSIVE DecimalValue(_, _)
DecimalValue(ds, acc) ==
    IF ds = <<>> THEN acc
    ELSE DecimalValue(Tail(ds), acc * 10 + DigitVal(Head(ds)))

\* a digit sequence without its leading zeros
RECURSIVE StripZeros(_)
StripZeros(ds) ==
    IF ds # <<>> /\ Head(ds) = "0" THEN StripZeros(Tail(ds)) ELSE ds

\* lexicographic order of two digit sequences of the same length
RECURSIVE DigitsLeq(_, _)
DigitsLeq(a, b) ==
    IF a = <<>> THEN TRUE
    ELSE IF DigitVal(Head(a)) < DigitVal(Head(b)) THEN TRUE
    ELSE IF DigitVal(Head(a)) > DigitVal(Head(b)) THEN FALSE
    ELSE DigitsLeq(Tail(a), Tail(b))

\* u32::MAX = 4294967295, as digits
U32MaxDigits == <<"4","2","9","4","9","6","7","2","9","5">>

FitsU32(ds) ==
    With(StripZeros(ds), LAMBDA n :
        \/ Len(n) < Len(U32MaxDigits)
        \/ Len(n) = Len(U32MaxDigits) /\ DigitsLeq(n, U32MaxDigits))

\* str::parse::<u32>(): an optional "+", then one or more decimal digits
\* whose value fits 32 bits
ParseU32(str) ==
    With(IF str # <<>> /\ Head(str) = "+" THEN Tail(str) ELSE str, LAMBDA ds :
    IF ds = <<>> THEN [ok |-> FALSE, err |-> "Empty"]
    ELSE IF \E i \in 1..Len(ds) : ds[i] \notin DigitChars
         THEN [ok |-> FALSE, err |-> "InvalidDigit"]
    ELSE IF ~FitsU32(ds) THEN [ok |-> FALSE, err |-> "PosOverflow"]
    ELSE [ok |-> TRUE, val |-> DecimalValue(ds, 0)])

-----------------------------------------------------------------------------
(* lexer.rs: the token functions *)

\* a loop that takes the end of input for the end delimiter
RECURSIVE ReadUntil_EofCloses(_, _, _, _)
ReadUntil_EofCloses(s, p, end_delimiter, chars) ==
    With(next_char(s, p), LAMBDA next :
    IF ~next.ok THEN Ok(chars, next.pos)
    ELSE IF next.val = end_delimiter THEN Ok(chars, next.pos)
    ELSE ReadUntil_EofCloses(s, next.pos, end_delimiter, Append(chars, next.val)))

\* the loop of parse_literal_raw and of parse_literal: characters up to the
\* end delimiter, which is consumed
RECURSIVE ReadUntil(_, _, _, _)
ReadUntil(s, p, end_delimiter, chars) ==
    With(next_char(s, p), LAMBDA next :
    IF ~next.ok THEN Err(LexerErrorFrom(next.err), next.pos)
    ELSE IF next.val = end_delimiter THEN Ok(chars, next.pos)
    ELSE ReadUntil(s, next.pos, end_delimiter, Append(chars, next.val)))

parse_literal_raw(s, p, end_delimiter) == ReadUntil(s, p, end_delimiter, <<>>)

parse_literal(s, p, literal_type, start_delimiter, end_delimiter) ==
    With(next_char(s, p), LAMBDA start_char :
    IF ~start_char.ok THEN Err(LexerErrorFrom(start_char.err), start_char.pos)
    ELSE IF start_char.val # start_delimiter
         THEN Err(UnmatchedTokenError(TUnknown(start_char.val)), start_char.pos)
    ELSE With(ReadUntil(s, start_char.pos, end_delimiter, <<>>), LAMBDA body :
         IF ~body.ok THEN body
         ELSE Ok(TLiteral(literal_type, body.val), body.pos)))

\* the loop of parse_identifier: every character is taken with next_char,
\* the one that ends the loop too
RECURSIVE ReadIdentifier(_, _, _)
ReadIdentifier(s, p, chars) ==
    With(next_char(s, p), LAMBDA next :
    IF ~next.ok THEN Err(LexerErrorFrom(next.err), next.pos)
    ELSE IF next.val \in VALID_IDEN_CHARS
         THEN ReadIdentifier(s, next.pos, Append(chars, next.val))
    ELSE Ok(TLiteral("Identifier", chars), next.pos))

parse_identifier(s, p) ==
    With(next_char(s, p), LAMBDA start_char :
    IF ~start_char.ok THEN Err(LexerErrorFrom(start_char.err), start_char.pos)
    ELSE IF start_char.val # "$"
         THEN Err(UnmatchedTokenError(TLiteral("Identifier", <<>>)), start_char.pos)
    ELSE ReadIdentifier(s, start_char.pos, <<>>))

\* Lexer::parse_page; peek_many cannot fail here, next_token has peeked 'p'
Lexer_parse_page(s, p) ==
    With(peek_many(s, p, 4), LAMBDA buf :
    IF buf.val = <<"p", "a", "g", "e">>
    THEN Ok(TPage, advance(s, p, 4))
    ELSE Err(LexReaderError(""), p))

\* an empty quantifier text read as the number 0
parse_quantifier_EmptyIsZero(str) ==
    IF str = <<>> THEN [ok |-> TRUE, val |-> QFixed(0)]
    ELSE With(ParseU32(str), LAMBDA amt :
         IF amt.ok THEN [ok |-> TRUE, val |-> QFixed(amt.val)]
         ELSE [ok |-> FALSE, err |-> InvalidQuantifier(amt.err)])

\* a quantifier parser that reads a bare `*` as Any
parse_quantifier_EmptyIsAny(str) ==
    IF str = <<>> THEN [ok |-> TRUE, val |-> QAny]
    ELSE With(ParseU32(str), LAMBDA amt :
         IF amt.ok THEN [ok |-> TRUE, val |-> QFixed(amt.val)]
         ELSE [ok |-> FALSE, err |-> InvalidQuantifier(amt.err)])

parse_quantifier(str) ==
    IF str = <<>> THEN [ok |-> TRUE, val |-> QMany]
    ELSE With(ParseU32(str), LAMBDA amt :
         IF amt.ok THEN [ok |-> TRUE, val |-> QFixed(amt.val)]
         ELSE [ok |-> FALSE, err |-> InvalidQuantifier(amt.err)])

parse_selector(s, p) ==
    With(parse_literal_raw(s, p, ";"), LAMBDA selector :
    IF ~selector.ok THEN selector
    ELSE IF Contains(selector.val, "*")
    THEN With(Split(selector.val, "*"), LAMBDA spl :
         With(IF Len(spl) > 1 THEN spl[2] ELSE <<>>, LAMBDA quantifier_str :
         With(parse_quantifier(quantifier_str), LAMBDA q :
         IF q.ok THEN Ok(TSelector(spl[1], q.val), selector.pos)
         ELSE Err(InvalidQuantifier(quantifier_str), selector.pos))))
    ELSE Ok(TSelector(selector.val, QSingle), selector.pos))

\* the arm of next_token for lookahead 'p'
PageOrSelector(s, p) ==
    With(Lexer_parse_page(s, p), LAMBDA page_parse_result :
    IF page_parse_result.ok THEN page_parse_result
    ELSE IF page_parse_result.err.kind = "UnmatchedTokenError"
         THEN parse_selector(s, page_parse_result.pos)
    ELSE page_parse_result)

\* an arm that falls back to Unknown on every failure of the selector
SelectorOrUnknown_AnyFailure(s, p, any) ==
    With(parse_selector(s, p), LAMBDA res :
    IF res.ok THEN res
    ELSE Ok(TUnknown(any), advance(s, p, 1)))

\* the arm of next_token for any other lookahead
SelectorOrUnknown(s, p, any) ==
    With(parse_selector(s, p), LAMBDA res :
    IF res.ok THEN res
    ELSE IF res.err.kind = "UnmatchedTokenError"
         THEN Ok(TUnknown(any), advance(s, res.pos, 1))
    ELSE res)

next_token(s, p) ==
    With(peek(s, p), LAMBDA next :
    IF ~next.ok THEN Ok(TEOF, p)
    ELSE CASE next.val = "\"" -> parse_literal(s, p, "String", "\"", "\"")
           [] next.val \in WhitespaceChars -> Ok(TWhitespace, advance(s, p, 1))
           [] next.val = "<" -> parse_literal(s, p, "Url", "<", ">")
           [] next.val = "=" -> Ok(TAssignment, advance(s, p, 1))
           [] next.val = "p" -> PageOrSelector(s, p)
           [] next.val = "$" -> parse_identifier(s, p)
           [] next.val = "{" -> Ok(BlockOpen, advance(s, p, 1))
           [] next.val = "}" -> Ok(BlockClose, advance(s, p, 1))
           [] OTHER -> SelectorOrUnknown(s, p, next.val))

RECURSIVE next_non_whitespace(_, _)
next_non_whitespace(s, p) ==
    With(next_token(s, p), LAMBDA token :
    IF ~token.ok THEN token
    ELSE IF token.val = TWhitespace THEN next_non_whitespace(s, token.pos)
    ELSE token)

-----------------------------------------------------------------------------
(* parser.rs: the syntax tree, the partial records of pdml-macros *)

None == [some |-> FALSE]
Some(x) == [some |-> TRUE, val |-> x]

\* any_string!()
ANY == <<"a", "n", "y">>

\* PartialPage::default(), PartialElement::default(): every field None
PartialPageDefault == [url |-> None, name |-> None, elements |-> None]

PartialElementDefault ==
    [identifier |-> None, selector |-> None, quantifier |-> None, children |-> None]

\* Outcomes of the parser: a value, an Error, or a panic (an unwrap of None)
POk(v, p) == [st |-> "ok", val |-> v, pos |-> p]
PErr(e, p) == [st |-> "err", err |-> e, pos |-> p]
PPanic(p) == [st |-> "panic", pos |-> p]

\* impl Into<Page> for PartialPage: url and elements are unwrapped, name is
\* of an Option type and is passed on
PageInto(partial, p) ==
    IF ~partial.url.some \/ ~partial.elements.some THEN PPanic(p)
    ELSE POk([url |-> partial.url.val,
              name |-> partial.name,
              elements |-> partial.elements.val], p)

\* a conversion that loses the children of an element
ElementInto_NoChildren(partial, p) ==
    IF ~partial.selector.some \/ ~partial.quantifier.some THEN PPanic(p)
    ELSE POk([identifier |-> partial.identifier,
              selector |-> partial.selector.val,
              quantifier |-> partial.quantifier.val,
              children |-> None], p)

\* impl Into<Element> for PartialElement: selector and quantifier are
\* unwrapped, identifier and children are of an Option type
ElementInto(partial, p) ==
    IF ~partial.selector.some \/ ~partial.quantifier.some THEN PPanic(p)
    ELSE POk([identifier |-> partial.identifier,
              selector |-> partial.selector.val,
              quantifier |-> partial.quantifier.val,
              children |-> partial.children], p)

\* parser errors
UnexpectedTokenError(expected, got) ==
    [kind |-> "UnexpectedTokenError", expected |-> expected, got |-> got]

UnexpectedTokenValidManyError(expected, got) ==
    [kind |-> "UnexpectedTokenValidManyError", expected |-> expected, got |-> got]

\* impl From<LexerError> for Error, applied by `?` to a failed lexer call r
LexFail(r) == PErr([kind |-> "LexerError", cause |-> r.err], r.pos)

\* expect(token_type, got)
expect(token_type, got) == TokenEq(got, token_type)

\* a mismatch reported after one more character has been consumed
ExpectFail_ReadsOn(token_type, r) ==
    PErr(UnexpectedTokenError(token_type, r.val), r.pos + 1)

ExpectFail(token_type, r) == PErr(UnexpectedTokenError(token_type, r.val), r.pos)

-----------------------------------------------------------------------------
(* parser.rs: PageParser *)

\* a match that takes the token after an identifier without looking at it
BlockHead_AnyAfterIdentifier(s, p, token) ==
    IF token.type = "Literal" /\ token.lit = "Identifier"
    THEN With(next_non_whitespace(s, p), LAMBDA t1 :
         IF ~t1.ok THEN LexFail(t1)
         ELSE With(next_non_whitespace(s, t1.pos), LAMBDA t2 :
              IF ~t2.ok THEN LexFail(t2)
              ELSE IF ~expect(TSelector(ANY, QAny), t2.val)
                   THEN ExpectFail(TSelector(ANY, QAny), t2)
              ELSE POk([PartialElementDefault EXCEPT
                           !.identifier = Some(token.text),
                           !.selector = Some(t2.val.text),
                           !.quantifier = Some(t2.val.quant)], t2.pos)))
    ELSE IF token.type = "Selector"
    THEN POk([PartialElementDefault EXCEPT
                 !.selector = Some(token.text),
                 !.quantifier = Some(token.quant)], p)
    ELSE PErr(UnexpectedTokenValidManyError(
                 <<TLiteral("Identifier", ANY), TSelector(ANY, QAny)>>, token), p)

\* the match of parse_block that fills the element's identifier, selector
\* and quantifier from the current token
BlockHead(s, p, token) ==
    IF token.type = "Literal" /\ token.lit = "Identifier"
    THEN With(next_non_whitespace(s, p), LAMBDA t1 :
         IF ~t1.ok THEN LexFail(t1)
         ELSE IF ~expect(TAssignment, t1.val) THEN ExpectFail(TAssignment, t1)
         ELSE With(next_non_whitespace(s, t1.pos), LAMBDA t2 :
              IF ~t2.ok THEN LexFail(t2)
              ELSE IF ~expect(TSelector(ANY, QAny), t2.val)
                   THEN ExpectFail(TSelector(ANY, QAny), t2)
              ELSE POk([PartialElementDefault EXCEPT
                           !.identifier = Some(token.text),
                           !.selector = Some(t2.val.text),
                           !.quantifier = Some(t2.val.quant)], t2.pos)))
    ELSE IF token.type = "Selector"
    THEN POk([PartialElementDefault EXCEPT
                 !.selector = Some(token.text),
                 !.quantifier = Some(token.quant)], p)
    ELSE PErr(UnexpectedTokenValidManyError(
                 <<TLiteral("Identifier", ANY), TSelector(ANY, QAny)>>, token), p)

\* a loop that goes on, after the children of an element, with the `}` that
\* closed them
RECURSIVE parse_block_loop_StaleClose(_, _, _, _)
parse_block_loop_StaleClose(s, p, token, elements) ==
    IF token = BlockClose THEN POk(elements, p)
    ELSE
    With(BlockHead(s, p, token), LAMBDA head :
    IF head.st # "ok" THEN head
    ELSE
    With(next_non_whitespace(s, head.pos), LAMBDA t3 :
    IF ~t3.ok THEN LexFail(t3)
    ELSE IF t3.val = BlockOpen
    THEN With(next_non_whitespace(s, t3.pos), LAMBDA t4 :
         IF ~t4.ok THEN LexFail(t4)
         ELSE
         With(parse_block_loop_StaleClose(s, t4.pos, t4.val, <<>>), LAMBDA children :
         IF children.st # "ok" THEN children
         ELSE
         With(ElementInto([head.val EXCEPT !.children = Some(children.val)],
                          children.pos),
              LAMBDA elem :
         IF elem.st # "ok" THEN elem
         ELSE parse_block_loop_StaleClose(s, children.pos, BlockClose,
                                          Append(elements, elem.val)))))
    ELSE With(ElementInto(head.val, t3.pos), LAMBDA elem :
         IF elem.st # "ok" THEN elem
         ELSE parse_block_loop_StaleClose(s, t3.pos, t3.val,
                                          Append(elements, elem.val)))))

\* PageParser::parse_block: the loop, with the elements pushed so far
RECURSIVE parse_block_loop(_, _, _, _)
parse_block_loop(s, p, token, elements) ==
    IF token = BlockClose THEN POk(elements, p)
    ELSE
    With(BlockHead(s, p, token), LAMBDA head :
    IF head.st # "ok" THEN head
    ELSE
    With(next_non_whitespace(s, head.pos), LAMBDA t3 :
    IF ~t3.ok THEN LexFail(t3)
    ELSE IF t3.val = BlockOpen
    THEN With(next_non_whitespace(s, t3.pos), LAMBDA t4 :
         IF ~t4.ok THEN LexFail(t4)
         ELSE
         With(parse_block_loop(s, t4.pos, t4.val, <<>>), LAMBDA children :
         IF children.st # "ok" THEN children
         ELSE
         With(next_non_whitespace(s, children.pos), LAMBDA t5 :
         IF ~t5.ok THEN LexFail(t5)
         ELSE
         With(ElementInto([head.val EXCEPT !.children = Some(children.val)], t5.pos),
              LAMBDA elem :
         IF elem.st # "ok" THEN elem
         ELSE parse_block_loop(s, t5.pos, t5.val, Append(elements, elem.val))))))
    ELSE With(ElementInto(head.val, t3.pos), LAMBDA elem :
         IF elem.st # "ok" THEN elem
         ELSE parse_block_loop(s, t3.pos, t3.val, Append(elements, elem.val)))))

parse_block(s, p, initial_token) == parse_block_loop(s, p, initial_token, <<>>)

\* a parse_page whose error leaves `}` out of the alternatives
PageParser_parse_page_TwoAlternatives(s, p, partial_page) ==
    With(next_non_whitespace(s, p), LAMBDA token :
    IF ~token.ok THEN LexFail(token)
    ELSE IF token.val = BlockClose THEN PageInto(partial_page, token.pos)
    ELSE IF \/ token.val.type = "Literal" /\ token.val.lit = "Identifier"
            \/ token.val.type = "Selector"
    THEN With(parse_block(s, token.pos, token.val), LAMBDA block :
         IF block.st # "ok" THEN block
         ELSE PageInto([partial_page EXCEPT !.elements = Some(block.val)], block.pos))
    ELSE PErr(UnexpectedTokenValidManyError(
                 <<TLiteral("Identifier", ANY), TSelector(ANY, QAny)>>,
                 token.val), token.pos))

\* PageParser::parse_page
PageParser_parse_page(s, p, partial_page) ==
    With(next_non_whitespace(s, p), LAMBDA token :
    IF ~token.ok THEN LexFail(token)
    ELSE IF token.val = BlockClose THEN PageInto(partial_page, token.pos)
    ELSE IF \/ token.val.type = "Literal" /\ token.val.lit = "Identifier"
            \/ token.val.type = "Selector"
    THEN With(parse_block(s, token.pos, token.val), LAMBDA block :
         IF block.st # "ok" THEN block
         ELSE PageInto([partial_page EXCEPT !.elements = Some(block.val)], block.pos))
    ELSE PErr(UnexpectedTokenValidManyError(
                 <<BlockClose, TLiteral("Identifier", ANY), TSelector(ANY, QAny)>>,
                 token.val), token.pos))

\* PageParser::parse_pages: the loop, with the current token and the pages
\* pushed so far
RECURSIVE parse_pages_loop(_, _, _, _)
parse_pages_loop(s, p, token, pages) ==
    IF token = TEOF THEN POk(pages, p)
    ELSE IF ~expect(TPage, token) THEN PErr(UnexpectedTokenError(TPage, token), p)
    ELSE
    With(next_non_whitespace(s, p), LAMBDA t1 :
    IF ~t1.ok THEN LexFail(t1)
    ELSE IF ~expect(TLiteral("Url", ANY), t1.val)
         THEN ExpectFail(TLiteral("Url", ANY), t1)
    ELSE
    With([PartialPageDefault EXCEPT !.url = Some(t1.val.text)], LAMBDA partial_url :
    With(next_non_whitespace(s, t1.pos), LAMBDA t2 :
    IF ~t2.ok THEN LexFail(t2)
    ELSE IF t2.val = TAssignment
    THEN With(next_non_whitespace(s, t2.pos), LAMBDA t3 :
         IF ~t3.ok THEN LexFail(t3)
         ELSE IF ~expect(TLiteral("String", ANY), t3.val)
              THEN ExpectFail(TLiteral("String", ANY), t3)
         ELSE
         With([partial_url EXCEPT !.name = Some(t3.val.text)], LAMBDA partial_named :
         With(next_non_whitespace(s, t3.pos), LAMBDA t4 :
         IF ~t4.ok THEN LexFail(t4)
         ELSE IF ~expect(BlockOpen, t4.val) THEN ExpectFail(BlockOpen, t4)
         ELSE
         With(PageParser_parse_page(s, t4.pos, partial_named), LAMBDA page :
         IF page.st # "ok" THEN page
         ELSE
         With(next_non_whitespace(s, page.pos), LAMBDA t5 :
         IF ~t5.ok THEN LexFail(t5)
         ELSE parse_pages_loop(s, t5.pos, t5.val, Append(pages, page.val)))))))
    ELSE IF t2.val = BlockOpen
    THEN With(PageParser_parse_page(s, t2.pos, partial_url), LAMBDA page :
         IF page.st # "ok" THEN page
         ELSE parse_pages_loop(s, page.pos, t2.val, Append(pages, page.val)))
    ELSE PErr(UnexpectedTokenValidManyError(
                 <<TAssignment, BlockOpen>>, t2.val), t2.pos))))

parse_pages(s) ==
    With(next_non_whitespace(s, 0), LAMBDA token :
    IF ~token.ok THEN LexFail(token)
    ELSE parse_pages_loop(s, token.pos, token.val, <<>>))

\* Parser::parse: a reader and a lexer of its own over the file
Parser_parse(s) == parse_pages(s)

-----------------------------------------------------------------------------
(* scrape.rs: the selector classifier and the extraction of values *)

SelTag(tag) == [form |-> "Tag", tag |-> tag]
SelAttr(name, value) == [form |-> "Attr", attr |-> <<name, value>>]
SelBoth(tag, name, value) == [form |-> "Both", tag |-> tag, attr |-> <<name, value>>]

CLASS == <<"c", "l", "a", "s", "s">>
ID == <<"i", "d">>

ScraperError(msg) == [kind |-> "ScraperError", msg |-> msg]

\* Selector::extract_split; the text contains split_str
extract_split(selector, split_str, attr) ==
    With(Find(selector, split_str), LAMBDA dot_loc :
    IF dot_loc = 0 THEN SelAttr(attr, Tail(selector))
    ELSE IF dot_loc = Len(selector) - 1
         THEN SelTag(SubSeq(selector, 1, Len(selector) - 1))
    ELSE With(Split(selector, split_str), LAMBDA spl :
         SelBoth(spl[1], attr, spl[2])))

\* an attribute list that takes every `=` after the first into the bargain
parse_attr_Lenient(attr) ==
    With(Split(attr, "="), LAMBDA attr_spl :
    IF Len(attr_spl) < 2
    THEN [ok |-> FALSE, err |-> ScraperError("Malformed attribute list")]
    ELSE [ok |-> TRUE, val |-> <<attr_spl[1], attr_spl[2]>>])

\* Selector::parse_attr
parse_attr(attr) ==
    With(Split(attr, "="), LAMBDA attr_spl :
    IF Len(attr_spl) # 2
    THEN [ok |-> FALSE, err |-> ScraperError("Malformed attribute list")]
    ELSE [ok |-> TRUE, val |-> <<attr_spl[1], attr_spl[2]>>])

\* a classifier that looks for `#` before it looks for `.`
Selector_parse_IdFirst(selector) ==
    IF Contains(selector, "#")
    THEN [ok |-> TRUE, val |-> extract_split(selector, "#", ID)]
    ELSE IF Contains(selector, ".")
    THEN [ok |-> TRUE, val |-> extract_split(selector, ".", CLASS)]
    ELSE IF Contains(selector, "[")
    THEN With(Split(selector, "["), LAMBDA spl :
         IF Len(spl) # 2
         THEN [ok |-> FALSE, err |-> ScraperError("Malformed selector")]
         ELSE IF spl[2] # <<>> /\ spl[2][Len(spl[2])] = "]"
         THEN With(parse_attr(SubSeq(spl[2], 1, Len(spl[2]) - 1)), LAMBDA attr :
              IF ~attr.ok THEN attr
              ELSE [ok |-> TRUE, val |-> SelBoth(spl[1], attr.val[1], attr.val[2])])
         ELSE [ok |-> FALSE, err |-> ScraperError("Malformed selector")])
    ELSE [ok |-> TRUE, val |-> SelTag(selector)]

\* Selector::parse
Selector_parse(selector) ==
    IF Contains(selector, ".")
    THEN [ok |-> TRUE, val |-> extract_split(selector, ".", CLASS)]
    ELSE IF Contains(selector, "#")
    THEN [ok |-> TRUE, val |-> extract_split(selector, "#", ID)]
    ELSE IF Contains(selector, "[")
    THEN With(Split(selector, "["), LAMBDA spl :
         IF Len(spl) # 2
         THEN [ok |-> FALSE, err |-> ScraperError("Malformed selector")]
         ELSE IF spl[2] # <<>> /\ spl[2][Len(spl[2])] = "]"
         THEN With(parse_attr(SubSeq(spl[2], 1, Len(spl[2]) - 1)), LAMBDA attr :
              IF ~attr.ok THEN attr
              ELSE [ok |-> TRUE, val |-> SelBoth(spl[1], attr.val[1], attr.val[2])])
         ELSE [ok |-> FALSE, err |-> ScraperError("Malformed selector")])
    ELSE [ok |-> TRUE, val |-> SelTag(selector)]

\* a take that lets one node too many through
Take_OneMore(m, n) == [i \in 1..Min(m, n + 1) |-> i]

\* find_all().take(n): the first n of the m nodes found, in document order
Take(m, n) == [i \in 1..Min(m, n) |-> i]

\* get_element_data: the classified selector is the query put to the body
\* node, m is the number of nodes that query finds; the values are named by
\* the position of their node in document order
get_element_data(elem, m) ==
    With(Selector_parse(elem.selector), LAMBDA sel :
    IF ~sel.ok THEN sel
    ELSE IF elem.quantifier.q = "Single"
         THEN [ok |-> TRUE, query |-> sel.val, val |-> Take(m, 1)]
    ELSE IF elem.quantifier.q = "Fixed"
         THEN [ok |-> TRUE, query |-> sel.val, val |-> Take(m, elem.quantifier.n)]
    ELSE [ok |-> TRUE, query |-> sel.val, val |-> Take(m, m)])

-----------------------------------------------------------------------------
(* The source files: documents written out from a syntax tree, with every  *)
(* token followed by one whitespace character, and raw character strings   *)

MaxNodes == 4       \* pages plus elements of a written document
MaxSrcLen == 4      \* length of a raw character string
MaxBodyLen == 3     \* length of the raw characters of a block, of a URL, or
                    \* after a page
MaxSelLen == 4      \* length of a selector text handed to the classifier
MaxMatches == 3     \* nodes the query engine finds for one selector

\* decimal digits of n
RECURSIVE NatToDigits(_)
NatToDigits(n) ==
    LET d == <<"0","1","2","3","4","5","6","7","8","9">>[(n % 10) + 1]
    IN  IF n < 10 THEN <<d>> ELSE Append(NatToDigits(n \div 10), d)

RenderQuantifier(q) ==
    CASE q.q = "Single" -> <<>>
      [] q.q = "Many" -> <<"*">>
      [] q.q = "Fixed" -> <<"*">> \o NatToDigits(q.n)

\* the elements of a block, every token followed by the whitespace ws
RECURSIVE RenderElementsWith(_, _)
RenderElementsWith(elems, ws) ==
    IF elems = <<>> THEN <<>>
    ELSE LET e == Head(elems)
         IN  (IF e.identifier.some
                 THEN <<"$">> \o e.identifier.val \o ws \o <<"=">> \o ws
                 ELSE <<>>)
             \o e.selector \o RenderQuantifier(e.quantifier) \o <<";">> \o ws
             \o (IF e.children.some
                    THEN <<"{">> \o ws \o RenderElementsWith(e.children.val, ws)
                         \o <<"}">> \o ws
                    ELSE <<>>)
             \o RenderElementsWith(Tail(elems), ws)

RenderPageWith(page, ws) ==
    <<"p", "a", "g", "e">> \o ws \o <<"<">> \o page.url \o <<">">> \o ws
    \o (IF page.name.some
           THEN <<"=">> \o ws \o <<"\"">> \o page.name.val \o <<"\"">> \o ws
           ELSE <<>>)
    \o <<"{">> \o ws \o RenderElementsWith(page.elements, ws) \o <<"}">> \o ws

RECURSIVE RenderDocWith(_, _)
RenderDocWith(pages, ws) ==
    IF pages = <<>> THEN <<>>
    ELSE RenderPageWith(Head(pages), ws) \o RenderDocWith(Tail(pages), ws)

\* a document with one space after every token
RenderDoc(pages) == RenderDocWith(pages, <<" ">>)

\* the elements a document is written from, without their children
ElementLeaves ==
    { [identifier |-> Some(<<"t", "_", "A">>), selector |-> <<"h", "1">>,
       quantifier |-> QFixed(1), children |-> None],
      [identifier |-> None, selector |-> <<"l", "i">>,
       quantifier |-> QMany, children |-> None],
      [identifier |-> Some(<<"x">>), selector |-> <<"s", ".", "c">>,
       quantifier |-> QSingle, children |-> None] }

PageNames == {None, Some(<<"N">>)}

\* the sequences of elements with n elements in all, children included
RECURSIVE ForestsExact(_)
ForestsExact(n) ==
    IF n = 0 THEN {<<>>}
    ELSE UNION { LET kids == IF k = 0 THEN {None}
                             ELSE {Some(f) : f \in ForestsExact(k)}
                     rests == ForestsExact(n - 1 - k)
                 IN  { <<[l EXCEPT !.children = c]>> \o rest :
                         l \in ElementLeaves, c \in kids, rest \in rests }
               : k \in 0..(n - 1) }

\* the documents with n pages and elements in all
RECURSIVE DocsExact(_)
DocsExact(n) ==
    IF n = 0 THEN {<<>>}
    ELSE UNION { LET forests == ForestsExact(k)
                     rests == DocsExact(n - 1 - k)
                 IN  { <<[url |-> <<"u">>, name |-> nm, elements |-> f]>> \o rest :
                         nm \in PageNames, f \in forests, rest \in rests }
               : k \in 0..(n - 1) }

Docs == UNION { DocsExact(n) : n \in 0..MaxNodes }

Strings(alphabet, n) == UNION { [1..k -> alphabet] : k \in 0..n }

SelectorAlphabet == {"a", "*", "3", "+", ";"}
IdentifierAlphabet == {"$", "a", "=", ";", " "}
PageAlphabet == {"p", "a", "g", "e", ";"}
LiteralAlphabet == {"\"", "<", ">", "a", ";"}

SampleDoc ==
    <<"p","a","g","e"," ","<","u",">"," ","="," ","\"","N","\""," ","{","\n",
      "$","a"," ","="," ","h","*","1",";","\r","\n","l","i","*",";"," ","{","\n",
      "\t","$","b"," ","="," ","s",".","c",";","\n","}","\n","}">>

\* an element with an empty block, no whitespace but the one after `$c`
DenseDoc ==
    <<"p","a","g","e","<","u",">","=","\"","N","\"","{","$","c"," ","=",
      "d","i","v","*","2",";","{","}","a",";","}">>

\* a named page around the characters of a block
PageAround(body) ==
    <<"p","a","g","e","<","u",">","=","\"","N","\"","{">> \o body \o <<"}">>

BodyAlphabet == {"a", ";", "*", "$", "=", "{", "}", " "}

\* a named page of one element with the characters of a URL literal
PageAt(url) ==
    <<"p","a","g","e","<">> \o url \o <<">","=","\"","N","\"","{","a",";","}">>

UrlAlphabet == {"u", ".", " "}

\* a complete named page, and characters after its `}`
PageThen(trail) == PageAround(<<"a", ";">>) \o trail

TrailAlphabet == {"}", "a", ";", "=", " "}

\* a quantifier one above u32::MAX
OverflowDoc == <<"a", "*">> \o <<"4","2","9","4","9","6","7","2","9","6">> \o <<";">>

RawSources ==
    Strings(SelectorAlphabet, MaxSrcLen) \cup Strings(IdentifierAlphabet, MaxSrcLen)
    \cup Strings(PageAlphabet, MaxSrcLen) \cup Strings(LiteralAlphabet, MaxSrcLen)
    \cup { SubSeq(SampleDoc, 1, n) : n \in 0..Len(SampleDoc) }
    \cup { SubSeq(DenseDoc, 1, n) : n \in 0..Len(DenseDoc) }
    \cup { PageAround(b) : b \in Strings(BodyAlphabet, MaxBodyLen) }
    \cup { PageAt(u) : u \in Strings(UrlAlphabet, MaxBodyLen) }
    \cup { PageThen(t) : t \in Strings(TrailAlphabet, MaxBodyLen) }
    \cup { OverflowDoc }

-----------------------------------------------------------------------------
(* The state machine: a file, a Lexer draining it token by token, and a    *)
(* Parser parsing it                                                       *)

NotRun == [st |-> "notrun"]

NoElement == [selector |-> <<>>, quantifier |-> QAny]

ClassifierAlphabet == {"a", ".", "#", "[", "]", "="}

Quantifiers ==
    {QSingle, QMany, QAny} \cup { QFixed(n) : n \in 0..(MaxMatches + 1) }

\* the elements handed to get_element_data: every short selector text, and
\* one text of each form with every quantifier
ScrapeElements ==
    { [selector |-> t, quantifier |-> QSingle] :
        t \in Strings(ClassifierAlphabet, MaxSelLen) }
    \cup { [selector |-> t, quantifier |-> q] :
             t \in {<<"a">>, <<"#", "a">>, <<"a", ".", "a">>,
                    <<"a", "[", "a", "=", "a", "]">>},
             q \in Quantifiers }

Init ==
    /\ \/ \E d \in Docs : doc = Some(d) /\ src = RenderDoc(d)
       \/ doc = None /\ src \in RawSources
    /\ start = 0
    /\ pos = 0
    /\ tokens = <<>>
    /\ lexState = "run"
    /\ lexErr = None
    /\ result = NotRun
    /\ element = NoElement
    /\ matches = 0
    /\ scraped = NotRun
    /\ matched = NotRun

\* one call of Lexer::next_token by the loop of Lexer::tokenize, which
\* pushes the token, ends on EOF or returns the error
Tokenize ==
    /\ lexState = "run"
    /\ start' = pos
    /\ \E next_tok \in {next_token(src, pos)} :
           /\ pos' = next_tok.pos
           /\ IF ~next_tok.ok
              THEN lexState' = "fail" /\ lexErr' = Some(next_tok.err)
                   /\ tokens' = tokens
              ELSE IF next_tok.val = TEOF
              THEN lexState' = "done" /\ lexErr' = lexErr /\ tokens' = tokens
              ELSE lexState' = "run" /\ lexErr' = lexErr
                   /\ tokens' = Append(tokens, next_tok.val)
    /\ UNCHANGED <<src, doc, result, element, matches, scraped, matched>>

\* Parser::parse
Parse ==
    /\ result = NotRun
    /\ result' = Parser_parse(src)
    /\ UNCHANGED <<src, doc, start, pos, tokens, lexState, lexErr, element,
                   matches, scraped, matched>>

Next == Tokenize \/ Parse

Spec == Init /\ [][Next]_vars

\* the loop of Lexer::tokenize goes on to its next call for as long as no
\* call has ended it, and the caller of Parser::parse does call it: both run
\* on the caller's thread with nothing to wait for
SpecLive == Spec /\ WF_vars(Tokenize) /\ WF_vars(Parse)

-----------------------------------------------------------------------------
(* The execution layer's use of one Element of a parsed page: the selector *)
(* is classified and the query engine's matches are cut to the quantifier  *)

InitScrape ==
    /\ src = <<>>
    /\ doc = None
    /\ start = 0
    /\ pos = 0
    /\ tokens = <<>>
    /\ lexState = "run"
    /\ lexErr = None
    /\ result = NotRun
    /\ element \in ScrapeElements
    /\ matches = 0
    /\ scraped = NotRun
    /\ matched = NotRun

\* get_element_data(element, body): the body node holds m matches
GetElementData ==
    /\ scraped = NotRun
    /\ \E m \in 0..MaxMatches :
           /\ matches' = m
           /\ scraped' = get_element_data(element, m)
    /\ UNCHANGED <<src, doc, start, pos, tokens, lexState, lexErr, result, element,
                   matched>>

NextScrape == GetElementData

SpecScrape == InitScrape /\ [][NextScrape]_vars

-----------------------------------------------------------------------------
(* The parser's comparison of a token it got with the shape it expects *)

Texts == {<<>>, <<"a">>, ANY}

\* tokens of every kind, with several payloads
SampleTokens ==
    { TLiteral(lt, tx) : lt \in {"String", "Url", "Identifier"}, tx \in Texts }
    \cup { TSelector(tx, q) : tx \in Texts, q \in Quantifiers }
    \cup { TAssignment, BlockOpen, BlockClose, TEOF, TWhitespace, TPage,
            TUnknown("a"), TUnknown("b") }

\* the lexer has returned one token
InitExpect ==
    /\ src = <<>>
    /\ doc = None
    /\ start = 0
    /\ pos = 0
    /\ tokens \in { <<tok>> : tok \in SampleTokens }
    /\ lexState = "run"
    /\ lexErr = None
    /\ result = NotRun
    /\ element = NoElement
    /\ matches = 0
    /\ scraped = NotRun
    /\ matched = NotRun

\* expect(token_type, &token)
Expect ==
    /\ matched = NotRun
    /\ \E token_type \in SampleTokens :
           matched' = [expected |-> token_type,
                       ok |-> expect(token_type, tokens[1])]
    /\ UNCHANGED <<src, doc, start, pos, tokens, lexState, lexErr, result, element,
                   matches, scraped>>

NextExpect == Expect

SpecExpect == InitExpect /\ [][NextExpect]_vars

-----------------------------------------------------------------------------
(* Properties of the parser, over the documents written from a syntax tree *)

\* the file was written from a syntax tree and Parser::parse has returned
ParsedDoc == doc.some /\ result # NotRun

\* C1: a document whose pages all have one or more elements, and one of
\* whose pages is written without a name, parses to the pages it was
\* written from: the page without a name has name None and the elements of
\* its block, and the parser goes on after the page's `}` to the next page
\* or to the end of input.
C1_UnnamedPageParses ==
    (/\ ParsedDoc
     /\ \A i \in 1..Len(doc.val) : Len(doc.val[i].elements) >= 1
     /\ \E i \in 1..Len(doc.val) : ~doc.val[i].name.some)
    => (result.st = "ok" /\ result.val = doc.val)

\* C2: a document of one page whose block is empty, with or without a name,
\* parses to one Page with an empty element list.
C2_EmptyBlockAccepted ==
    (ParsedDoc /\ Len(doc.val) = 1 /\ doc.val[1].elements = <<>>)
    => (/\ result.st = "ok"
        /\ Len(result.val) = 1
        /\ result.val[1].elements = <<>>
        /\ result.val[1].name = doc.val[1].name)

-----------------------------------------------------------------------------
(* Properties of the lexer, over the last call of next_token: it began at  *)
(* start, it left the reader at pos, and it pushed a token, ended the loop *)
(* or failed                                                               *)

\* next_token has been called
LexCalled == lexState # "run" \/ tokens # <<>>

\* the characters the last call had before it
Rest == SubSeq(src, start + 1, Len(src))

\* the last call returned the token tok
Returned(tok) == lexState = "run" /\ tokens # <<>> /\ tokens[Len(tokens)] = tok

LastToken == tokens[Len(tokens)]

\* the last call failed with an invalid-quantifier error
FailedInvalidQuantifier ==
    lexState = "fail" /\ lexErr.some /\ lexErr.val.kind = "InvalidQuantifier"

\* the last call failed on the end of input, with the whole file consumed
FailedAtEof ==
    /\ lexState = "fail"
    /\ lexErr = Some(LexReaderError("Reader reached eof"))
    /\ pos = Len(src)

\* the last call took the selector path from the default arm of next_token
SelectorPath ==
    /\ LexCalled
    /\ Rest # <<>>
    /\ Head(Rest) \notin ({"\"", "<", "=", "p", "$", "{", "}"} \cup WhitespaceChars)

\* the text up to the first `;`, of a Rest that contains one
Body == SubSeq(Rest, 1, Find(Rest, ";"))

\* the parts of a Body that contains `*`: before its first `*`, and after it
Before == SubSeq(Body, 1, Find(Body, "*"))

Suffix == SubSeq(Body, Find(Body, "*") + 2, Len(Body))

AllDigits(str) == str # <<>> /\ \A i \in 1..Len(str) : str[i] \in DigitChars

\* C4: a call of next_token that sees `p`, not followed by `age`, with a `;`
\* further on and no `*` before it, returns the characters up to that `;`
\* as a Selector token with quantifier Single and consumes the `;`.
C4_PFallsThroughToSelector ==
    (/\ LexCalled
     /\ Rest # <<>>
     /\ Head(Rest) = "p"
     /\ SubSeq(Rest, 1, Min(4, Len(Rest))) # <<"p", "a", "g", "e">>
     /\ Contains(Rest, ";")
     /\ ~Contains(Body, "*"))
    => (Returned(TSelector(Body, QSingle)) /\ pos = start + Len(Body) + 1)

\* C5: a call of next_token that sees `$` and returns a token returns an
\* Identifier of characters from [A-Za-z_] and has consumed the `$` and
\* those characters only, so that the character that ended the run is the
\* next one the reader gives.
C5_IdentifierLeavesTerminator ==
    (LexCalled /\ Rest # <<>> /\ Head(Rest) = "$" /\ lexState = "run")
    => (/\ LastToken.type = "Literal"
        /\ LastToken.lit = "Identifier"
        /\ \A i \in 1..Len(LastToken.text) : LastToken.text[i] \in VALID_IDEN_CHARS
        /\ pos = start + 1 + Len(LastToken.text)
        /\ pos < Len(src) => src[pos + 1] \notin VALID_IDEN_CHARS)

C7_BadSuffixIsInvalidQuantifier ==
    (/\ SelectorPath
     /\ Contains(Rest, ";")
     /\ Contains(Body, "*")
     /\ Suffix # <<>>
     /\ ~AllDigits(Suffix))
    => FailedInvalidQuantifier

\* C8: a call of next_token that begins at the end of input ends the loop
\* without a failure; a call that begins a string literal with no closing
\* quote ahead, a URL literal with no `>` ahead, or a selector with no `;`
\* ahead fails on the end of input; and a parse of the same file does not
\* succeed, and returns that failure when it is where it stopped.
C8_EofInsideToken ==
    /\ LexCalled =>
        /\ Rest = <<>> => (lexState = "done" /\ lexErr = None /\ pos = start)
        /\ (Rest # <<>> /\ Head(Rest) = "\"" /\ ~Contains(Tail(Rest), "\""))
           => FailedAtEof
        /\ (Rest # <<>> /\ Head(Rest) = "<" /\ ~Contains(Tail(Rest), ">"))
           => FailedAtEof
        /\ (SelectorPath /\ ~Contains(Rest, ";")) => FailedAtEof
    /\ (FailedAtEof /\ result # NotRun)
        => (/\ result.st # "ok"
            /\ result.pos = pos
               => result = PErr([kind |-> "LexerError", cause |-> lexErr.val], pos))

\* the lexer and the parser have both failed on a string literal that the
\* end of input cuts short
C8_Witness ==
    /\ LexCalled
    /\ Rest # <<>>
    /\ Head(Rest) = "\""
    /\ Len(Rest) > 1
    /\ FailedAtEof
    /\ result.st = "err"
    /\ result.err.kind = "LexerError"
    /\ result.pos = Len(src)

-----------------------------------------------------------------------------
(* Whitespace between the tokens of a document *)

\* whitespace to write after every token: none, or a tab, CR and LF
Separators == {<<>>, <<"\t", "\r", "\n">>}

\* the same Pages, or the same failure
SameOutcome(a, b) ==
    /\ a.st = b.st
    /\ a.st = "ok" => a.val = b.val
    /\ a.st = "err" => (a.err.kind = b.err.kind /\ a.err = b.err)

\* C9: the parse of a document written with one space after every token
\* has the outcome of the parse of the same document written with no
\* whitespace, and with other whitespace, after every token.
C9_WhitespaceInsignificant ==
    ParsedDoc
    => \A ws \in Separators :
          SameOutcome(Parser_parse(RenderDocWith(doc.val, ws)), result)

-----------------------------------------------------------------------------
(* Properties of the selector classifier *)

\* the separator of a selector text, and the attribute name that goes with it
Separator == IF Contains(element.selector, ".") THEN "." ELSE "#"

SeparatorName == IF Contains(element.selector, ".") THEN CLASS ELSE ID

FirstSeparator == Find(element.selector, Separator)

\* C10: a selector text with a `.`, or with no `.` and a `#`, is split at the
\* first one only: Attr(name, the rest) when it is the first character,
\* Tag(the text without it) when it is the last, and otherwise Both(the text
\* before it, (name, all the text after it)).
C10_SplitAtFirstSeparator ==
    (/\ scraped # NotRun
     /\ Contains(element.selector, ".") \/ Contains(element.selector, "#"))
    => (/\ scraped.ok
        /\ scraped.query =
              IF FirstSeparator = 0
              THEN SelAttr(SeparatorName, Tail(element.selector))
              ELSE IF FirstSeparator = Len(element.selector) - 1
              THEN SelTag(SubSeq(element.selector, 1, Len(element.selector) - 1))
              ELSE SelBoth(SubSeq(element.selector, 1, FirstSeparator),
                           SeparatorName,
                           SubSeq(element.selector, FirstSeparator + 2,
                                  Len(element.selector))))

\* number of occurrences of c in str
Count(str, c) == Cardinality({ i \in 1..Len(str) : str[i] = c })

\* the text between the `[` of a selector text and its last character
Enclosed ==
    SubSeq(element.selector, Find(element.selector, "[") + 2,
           Len(element.selector) - 1)

\* one `[`, a `]` at the end, and one `=` between them
BracketWellFormed ==
    /\ Count(element.selector, "[") = 1
    /\ element.selector[Len(element.selector)] = "]"
    /\ Count(Enclosed, "=") = 1

\* C11: a selector text with no `.` and no `#` that contains `[` is
\* classified as Both(text before `[`, (text before `=`, text after `=`))
\* exactly when it has one `[`, ends with `]` and has one `=` between the
\* two, the text before `[` being empty or not; every other such text is a
\* ScraperError and no selector.
C11_BracketSelector ==
    (/\ scraped # NotRun
     /\ ~Contains(element.selector, ".")
     /\ ~Contains(element.selector, "#")
     /\ Contains(element.selector, "["))
    => IF BracketWellFormed
       THEN /\ scraped.ok
            /\ scraped.query =
                  SelBoth(SubSeq(element.selector, 1, Find(element.selector, "[")),
                          SubSeq(Enclosed, 1, Find(Enclosed, "=")),
                          SubSeq(Enclosed, Find(Enclosed, "=") + 2, Len(Enclosed)))
       ELSE ~scraped.ok /\ scraped.err.kind = "ScraperError"

\* `a[a=a]` was classified as Both(a, (a, a))
C11_Witness ==
    /\ scraped # NotRun
    /\ element.selector = <<"a", "[", "a", "=", "a", "]">>
    /\ BracketWellFormed
    /\ scraped.ok
    /\ scraped.query = SelBoth(<<"a">>, <<"a">>, <<"a">>)

\* number of values the quantifier of the element lets through, of m matches
Wanted ==
    CASE element.quantifier.q = "Single" -> Min(1, matches)
      [] element.quantifier.q = "Fixed" -> Min(element.quantifier.n, matches)
      [] OTHER -> matches

\* C12: the values extracted for an element whose selector is classified
\* are the first min(1, m) of its m matches for Single, the first min(n, m)
\* for Fixed(n), all m for Many and for Any, in document order, whichever of
\* the forms Tag, Attr and Both the selector has.
C12_QuantifierCutsMatches ==
    (scraped # NotRun /\ scraped.ok)
    => (/\ Len(scraped.val) = Wanted
        /\ \A i \in 1..Len(scraped.val) : scraped.val[i] = i)

\* Fixed(2) of three matches of an Attr selector gave the first two
C12_Witness ==
    /\ scraped # NotRun
    /\ scraped.ok
    /\ scraped.query.form = "Attr"
    /\ element.quantifier = QFixed(2)
    /\ matches = 3
    /\ scraped.val = <<1, 2>>

-----------------------------------------------------------------------------
(* Properties of the parse result *)

\* every element of the sequence, and of the children below it, has a
\* selector text of one or more characters
RECURSIVE NonEmptySelectors(_)
NonEmptySelectors(elems) ==
    \A i \in 1..Len(elems) :
        /\ elems[i].selector # <<>>
        /\ elems[i].children.some => NonEmptySelectors(elems[i].children.val)

\* C13: every Element of a parse result that was returned with success, at
\* any depth, has a non-empty selector text.
C13_SelectorsNonEmpty ==
    result.st = "ok"
    => \A i \in 1..Len(result.val) : NonEmptySelectors(result.val[i].elements)

\* C14: every Page of a parse result that was returned with success has a
\* non-empty URL.
C14_UrlsNonEmpty ==
    result.st = "ok" => \A i \in 1..Len(result.val) : result.val[i].url # <<>>

\* the parse failed on a token of the wrong shape
Mismatch ==
    /\ result.st = "err"
    /\ result.err.kind \in {"UnexpectedTokenError", "UnexpectedTokenValidManyError"}

\* C15: when the lexer fails anywhere in a file, the parse of that file
\* returns no Pages; a parse that returns a lexer error returns the error of
\* the lexer's first failing call and has consumed what that call consumed;
\* a parse that returns a mismatch has consumed the file up to the end of
\* the token it reports and no further (a reported EOF is at the end of
\* the file; after a page without a name the token reported is that page's
\* `{`, and the last token taken its `}`).
C15_FailureAborts ==
    /\ (lexState = "fail" /\ result # NotRun) => result.st # "ok"
    /\ (lexState = "fail" /\ result.st = "err" /\ result.err.kind = "LexerError")
       => result = PErr([kind |-> "LexerError", cause |-> lexErr.val], pos)
    /\ (Mismatch /\ lexState = "run" /\ tokens # <<>> /\ pos = result.pos)
       => \/ LastToken = result.err.got
          \/ result.err.got = TEOF /\ pos = Len(src)
          \/ /\ result.err = UnexpectedTokenError(TPage, BlockOpen)
             /\ LastToken = BlockClose

\* a page was parsed completely, the `=` after it was refused, and the
\* lexer has just returned that `=`
C15_Witness ==
    /\ src = PageThen(<<" ", "=", "a">>)
    /\ result = PErr(UnexpectedTokenError(TPage, TAssignment), Len(src) - 1)
    /\ lexState = "run"
    /\ pos = result.pos
    /\ LastToken = TAssignment

-----------------------------------------------------------------------------
(* Properties of the shape comparison *)

\* the kind of a token: its type, and for a literal or a parenthesis which
\* one it is; never its text or its quantifier
Kind(tok) ==
    CASE tok.type = "Literal" -> <<"Literal", tok.lit>>
      [] tok.type = "Paren" -> <<"Paren", tok.paren>>
      [] OTHER -> <<tok.type, "">>

\* C16: a token matches an expected shape exactly when the two are of the
\* same kind, whatever their texts and quantifiers: every token matches
\* itself, any two String literals, Url literals, Identifiers or Selectors
\* match, and no two tokens of differing kinds do.
C16_ShapeEquality ==
    matched # NotRun => (matched.ok <=> Kind(tokens[1]) = Kind(matched.expected))

\* a Selector with text and a fixed quantifier matched the wildcard Selector
C16_Witness ==
    /\ matched # NotRun
    /\ tokens[1] = TSelector(<<"a">>, QFixed(1))
    /\ matched.expected = TSelector(ANY, QAny)
    /\ matched.ok

-----------------------------------------------------------------------------
(* Properties of the element sequence, over the tokens the lexer returns   *)
(* for the file and the outcome of the parse of the same file              *)

\* the tokens returned so far that the parser would see
NonWhitespace == SelectSeq(tokens, LAMBDA t : t # TWhitespace)

IsIdentifier(tok) == tok.type = "Literal" /\ tok.lit = "Identifier"

\* the first tokens are those of a named page up to its `{`
NamedPageOpened ==
    /\ Len(NonWhitespace) >= 5
    /\ NonWhitespace[1] = TPage
    /\ TokenEq(NonWhitespace[2], TLiteral("Url", ANY))
    /\ NonWhitespace[3] = TAssignment
    /\ TokenEq(NonWhitespace[4], TLiteral("String", ANY))
    /\ NonWhitespace[5] = BlockOpen

\* token i is an Identifier at the head of an element of the page's block:
\* only Selector tokens, elements of their own, lie between it and the `{`
IdentifierHeadsElement(i) ==
    /\ NamedPageOpened
    /\ i > 5
    /\ i <= Len(NonWhitespace)
    /\ IsIdentifier(NonWhitespace[i])
    /\ \A j \in 6..(i - 1) : NonWhitespace[j].type = "Selector"

\* C17: when the token after an Identifier is not Assignment, the parse does
\* not succeed; and when that Identifier heads an element of a page's block,
\* the parse fails with UnexpectedTokenError(expected Assignment, got that
\* token).
C17_IdentifierNeedsAssignment ==
    result # NotRun
    => \A i \in 1..(Len(NonWhitespace) - 1) :
          (IsIdentifier(NonWhitespace[i]) /\ NonWhitespace[i + 1] # TAssignment)
          => (/\ result.st # "ok"
              /\ IdentifierHeadsElement(i)
                 => (/\ result.st = "err"
                     /\ result.err =
                           UnexpectedTokenError(TAssignment, NonWhitespace[i + 1])))

\* after one element, an identifier followed by `}` was refused
C17_Witness ==
    /\ NamedPageOpened
    /\ Len(NonWhitespace) = 8
    /\ NonWhitespace[6].type = "Selector"
    /\ IdentifierHeadsElement(7)
    /\ NonWhitespace[8] = BlockClose
    /\ result.st = "err"
    /\ result.err = UnexpectedTokenError(TAssignment, BlockClose)

\* C18: no parse ends in the abort of a conversion of a partial Page or a
\* partial Element with a required field unset.
C18_NoAbortOnFinalize == result.st # "panic"

\* the nesting of a sequence of elements: for each element, whether it has
\* children, and their nesting
RECURSIVE Nesting(_)
Nesting(elems) ==
    [i \in 1..Len(elems) |->
        IF elems[i].children.some
        THEN Some(Nesting(elems[i].children.val))
        ELSE None]

\* number of elements, at any depth, that have children
RECURSIVE WithChildren(_)
WithChildren(elems) ==
    IF elems = <<>> THEN 0
    ELSE (IF Head(elems).children.some
             THEN 1 + WithChildren(Head(elems).children.val)
             ELSE 0)
         + WithChildren(Tail(elems))

RECURSIVE PagesWithChildren(_)
PagesWithChildren(pages) ==
    IF pages = <<>> THEN 0
    ELSE WithChildren(Head(pages).elements) + PagesWithChildren(Tail(pages))

\* number of the tokens returned so far that are tok
Occurrences(tok) == Len(SelectSeq(tokens, LAMBDA t : t = tok))

\* C19: in the parse of a document of named pages the elements nest as they
\* were written: an element followed by a block has the elements of that
\* block as children, down to any depth, an element followed by anything
\* else has none, and the sequence goes on after the block's `}`; and in
\* every parse that succeeds each `{` and each `}` of the file belongs to a
\* page or to one element that has children.
C19_BlocksNest ==
    /\ (/\ ParsedDoc
        /\ \A i \in 1..Len(doc.val) :
               doc.val[i].name.some /\ Len(doc.val[i].elements) >= 1)
       => (/\ result.st = "ok"
           /\ Len(result.val) = Len(doc.val)
           /\ \A i \in 1..Len(doc.val) :
                 Nesting(result.val[i].elements) = Nesting(doc.val[i].elements))
    /\ (result.st = "ok" /\ lexState = "done")
       => (/\ Occurrences(BlockOpen) = Len(result.val) + PagesWithChildren(result.val)
           /\ Occurrences(BlockClose) = Occurrences(BlockOpen))

\* an element with a child and a sibling after it were parsed, and the
\* lexer has drained the file
C19_Witness ==
    /\ ParsedDoc
    /\ Len(doc.val) = 1
    /\ Len(doc.val[1].elements) = 2
    /\ doc.val[1].elements[1].children.some
    /\ result.st = "ok"
    /\ Nesting(result.val[1].elements) = <<Some(<<None>>), None>>
    /\ lexState = "done"
    /\ Occurrences(BlockOpen) = 2


\* the pages the document was written from, in their order, each with its
\* elements in their order
PagesInOrder ==
    /\ result.st = "ok"
    /\ Len(result.val) = Len(doc.val)
    /\ \A i \in 1..Len(doc.val) :
          /\ result.val[i].url = doc.val[i].url
          /\ result.val[i].elements = doc.val[i].elements

\* the file is empty or holds whitespace only
Blank == \A i \in 1..Len(src) : src[i] \in WhitespaceChars

\* the file is a page followed by something that is not whitespace and does
\* not begin a page
StrayAfterPage ==
    \E trail \in Strings(TrailAlphabet, MaxBodyLen) :
        /\ src = PageThen(trail)
        /\ \E i \in 1..Len(trail) : trail[i] \notin WhitespaceChars

\* the first token of the file that is not whitespace is neither `page` nor
\* the end of input, or the lexer fails before one is found
StrayAtStart ==
    With(next_non_whitespace(src, 0), LAMBDA first :
        first.ok => first.val \notin {TPage, TEOF})

BlankIsEmpty == (Blank /\ result # NotRun) => result = POk(<<>>, Len(src))

StrayFails ==
    ((StrayAfterPage \/ StrayAtStart) /\ result # NotRun) => result.st # "ok"

\* C20: a document of k pages parses to k Pages in the order of the file,
\* each with its elements in their order; an empty or whitespace-only file
\* parses to no Pages and no error; and a token that is neither whitespace
\* nor `page` where a page must start, at the head of the file or after the
\* `}` of a page, makes the parse fail.
C20_PagesInOrder ==
    /\ ParsedDoc => PagesInOrder
    /\ BlankIsEmpty
    /\ StrayFails


\* the selector text was classified by the rule of the separator sep, whose
\* attribute is name: an attribute alone when the text begins with sep, a
\* tag alone when its first sep is its last character, a tag and an
\* attribute otherwise
ClassifiedBy(sep, name) ==
    /\ scraped.ok
    /\ CASE Find(element.selector, sep) = 0 ->
                scraped.query = SelAttr(name, Tail(element.selector))
         [] Find(element.selector, sep) = Len(element.selector) - 1 ->
                scraped.query =
                    SelTag(SubSeq(element.selector, 1, Len(element.selector) - 1))
         [] OTHER ->
                /\ scraped.query.form = "Both"
                /\ scraped.query.attr[1] = name
                /\ scraped.query.tag =
                       SubSeq(element.selector, 1, Find(element.selector, sep))

\* C21: a selector text that contains `.` is classified by the class rule,
\* whatever else it contains; one without `.` that contains `#` by the id
\* rule, even if it contains `[`; one with none of `.`, `#` and `[` is
\* Tag(whole text); and a text that is not classified has no `.`, no `#`
\* and a `[`.
C21_ClassifierPriority ==
    scraped # NotRun =>
        /\ Contains(element.selector, ".") => ClassifiedBy(".", CLASS)
        /\ (~Contains(element.selector, ".") /\ Contains(element.selector, "#"))
           => ClassifiedBy("#", ID)
        /\ (/\ ~Contains(element.selector, ".")
            /\ ~Contains(element.selector, "#")
            /\ ~Contains(element.selector, "["))
           => (scraped.ok /\ scraped.query = SelTag(element.selector))
        /\ ~scraped.ok
           => (/\ ~Contains(element.selector, ".")
               /\ ~Contains(element.selector, "#")
               /\ Contains(element.selector, "["))

\* `a#.[` holds all three separators, the `#` before the `.`, and was
\* classified by the class rule
C21_Witness ==
    /\ scraped # NotRun
    /\ element.selector = <<"a", "#", ".", "[">>
    /\ ClassifiedBy(".", CLASS)
    /\ scraped.query = SelBoth(<<"a", "#">>, CLASS, <<"[">>)


\* no element of elems, at any depth, has the quantifier Any
RECURSIVE NoAnyIn(_)
NoAnyIn(elems) ==
    \A i \in 1..Len(elems) :
        /\ elems[i].quantifier # QAny
        /\ elems[i].children.some => NoAnyIn(elems[i].children.val)

\* tok is a selector token whose quantifier is Any
SelectorOfAny(tok) == tok.type = "Selector" /\ tok.quant = QAny

\* C22: no token the tokenizer returns is a selector with the quantifier
\* Any, no element of a parse result has it at any depth, and the token an
\* error reports as found does not have it.
C22_AnyNeverProduced ==
    /\ \A i \in 1..Len(tokens) : ~SelectorOfAny(tokens[i])
    /\ result.st = "ok"
       => \A i \in 1..Len(result.val) : NoAnyIn(result.val[i].elements)
    /\ (/\ result.st = "err"
        /\ result.err.kind \in {"UnexpectedTokenError", "UnexpectedTokenValidManyError"})
       => ~SelectorOfAny(result.err.got)

\* a page with an element written `li*;` that has a child was parsed, and
\* the tokenizer has returned its selector
C22_Witness ==
    /\ result.st = "ok"
    /\ Len(result.val) = 1
    /\ Len(result.val[1].elements) = 1
    /\ result.val[1].elements[1].quantifier = QMany
    /\ result.val[1].elements[1].children.some
    /\ Len(result.val[1].elements[1].children.val) = 1
    /\ \E i \in 1..Len(tokens) : tokens[i].type = "Selector" /\ tokens[i].quant = QMany


\* one or more characters, all of [A-Za-z_]
IdentifierText(text) ==
    /\ Len(text) >= 1
    /\ \A i \in 1..Len(text) : text[i] \in VALID_IDEN_CHARS

\* every identifier stored on an element of elems, at any depth, is an
\* identifier text
RECURSIVE IdentifiersIn(_)
IdentifiersIn(elems) ==
    \A i \in 1..Len(elems) :
        /\ elems[i].identifier.some => IdentifierText(elems[i].identifier.val)
        /\ elems[i].children.some => IdentifiersIn(elems[i].children.val)

\* C23: every Identifier token the tokenizer returns, and every identifier
\* stored on an element of a parse result, is one or more characters of
\* [A-Za-z_]; a `$` with no such character after it gives no Identifier of
\* empty text.
C23_IdentifiersNonEmpty ==
    /\ \A i \in 1..Len(tokens) :
          IsIdentifier(tokens[i]) => IdentifierText(tokens[i].text)
    /\ result.st = "ok"
       => \A i \in 1..Len(result.val) : IdentifiersIn(result.val[i].elements)


\* the last call of next_token returned a token and consumed a character
Progress == (LexCalled /\ lexState = "run") => pos > start

\* C24: every call of next_token that returns a token other than EOF has
\* consumed one or more characters, the tokenizer comes to its end or to a
\* failure, and the parser comes to a parse result or to a failure.
C24_Terminates ==
    /\ []Progress
    /\ <>(lexState \in {"done", "fail"})
    /\ <>(result.st \in {"ok", "err"})


\* the first tokens are those of a page without a name up to its `{`
UnnamedPageOpened ==
    /\ Len(NonWhitespace) >= 3
    /\ NonWhitespace[1] = TPage
    /\ TokenEq(NonWhitespace[2], TLiteral("Url", ANY))
    /\ NonWhitespace[3] = BlockOpen

\* index of the first token of the block of the first page, 0 if no page
\* has been opened
BlockStart ==
    IF NamedPageOpened THEN 6 ELSE IF UnnamedPageOpened THEN 4 ELSE 0

\* the lexer has given the i-th token of the file that is not whitespace,
\* the EOF that follows the last one included
Known(i) == i <= Len(NonWhitespace) \/ lexState = "done"

TokenAt(i) == IF i <= Len(NonWhitespace) THEN NonWhitespace[i] ELSE TEOF

NoStray == [found |-> FALSE]

\* the first token, from token i on, that stands where an element must
\* begin, at nesting depth `depth` below the page's block, and is none of
\* Identifier, Selector and `}`; `first` says that i is the first token of
\* the page's block. Nothing is found once the tokens given run out, the
\* page's block is closed, or an Identifier is not followed by `=` and a
\* Selector.
RECURSIVE StrayInBlock(_, _, _)
RECURSIVE AfterHead(_, _)
StrayInBlock(i, depth, first) ==
    IF ~Known(i) THEN NoStray
    ELSE IF TokenAt(i) = BlockClose
    THEN IF depth = 0 THEN NoStray ELSE StrayInBlock(i + 1, depth - 1, FALSE)
    ELSE IF IsIdentifier(TokenAt(i))
    THEN IF /\ Known(i + 2)
            /\ TokenAt(i + 1) = TAssignment
            /\ TokenAt(i + 2).type = "Selector"
         THEN AfterHead(i + 3, depth)
         ELSE NoStray
    ELSE IF TokenAt(i).type = "Selector" THEN AfterHead(i + 1, depth)
    ELSE [found |-> TRUE, at |-> i, depth |-> depth, first |-> first,
          got |-> TokenAt(i)]

\* the token after the selector of an element: a `{` opens its children
AfterHead(j, depth) ==
    IF ~Known(j) THEN NoStray
    ELSE IF TokenAt(j) = BlockOpen THEN StrayInBlock(j + 1, depth + 1, FALSE)
    ELSE StrayInBlock(j, depth, FALSE)

Stray == IF BlockStart = 0 THEN NoStray ELSE StrayInBlock(BlockStart, 0, TRUE)

IdentifierOrSelector == <<TLiteral("Identifier", ANY), TSelector(ANY, QAny)>>

\* C25, as the specification states it: a token that stands where an
\* element must begin and is none of Identifier, Selector and `}` makes the
\* parse fail with UnexpectedTokenValidManyError whose alternatives are
\* Identifier and Selector and no other, at the first token of the page's
\* block as at every later one and at every depth.
C25_StrayTokenTwoAlternatives ==
    (result # NotRun /\ Stray.found)
    => (/\ result.st = "err"
        /\ result.err = UnexpectedTokenValidManyError(IdentifierOrSelector, Stray.got))

\* C25, amended: such a token makes the parse fail with
\* UnexpectedTokenValidManyError; the alternatives are `}`, Identifier and
\* Selector when it is the first token of the page's block, and Identifier
\* and Selector at every later position and in every nested block; a block
\* left open at the end of input fails in this way with EOF as the token.
C25_StrayTokenFails ==
    (result # NotRun /\ Stray.found)
    => (/\ result.st = "err"
        /\ result.err =
              UnexpectedTokenValidManyError(
                  IF Stray.first THEN <<BlockClose>> \o IdentifierOrSelector
                  ELSE IdentifierOrSelector,
                  Stray.got))

\* an `=` as the first token of the children of an element was refused with
\* the two alternatives
C25_Witness ==
    /\ result # NotRun
    /\ Stray.found
    /\ Stray.depth = 1
    /\ Stray.got = TAssignment
    /\ result.st = "err"
    /\ result.err = UnexpectedTokenValidManyError(IdentifierOrSelector, TAssignment)


\* C26: no call of next_token returns an Unknown token: on the selector
\* path a call returns a Selector or fails, and fails when no `;` is left
\* before the end of input; and no error of the parser reports an Unknown
\* token as the one it found.
C26_NeverUnknown ==
    /\ \A i \in 1..Len(tokens) : tokens[i].type # "Unknown"
    /\ SelectorPath
       => \/ lexState = "run" /\ LastToken.type = "Selector"
          \/ lexState = "fail" /\ lexErr.some
    /\ (SelectorPath /\ ~Contains(Rest, ";"))
       => (lexState = "fail" /\ lexErr.some /\ pos = Len(src))
    /\ (/\ result.st = "err"
        /\ result.err.kind \in {"UnexpectedTokenError", "UnexpectedTokenValidManyError"})
       => result.err.got.type # "Unknown"

\* after a first token, a run of two or more characters with no `;` made
\* the call on the selector path fail
C26_Witness ==
    /\ SelectorPath
    /\ tokens # <<>>
    /\ Len(Rest) >= 2
    /\ ~Contains(Rest, ";")
    /\ lexState = "fail"
    /\ lexErr.some

=============================================================================
